---- MODULE Spec2Model ----
(***************************************************************************)
(* State-machine model of src/app.py: a Telegram bot whose per-user        *)
(* dialog (a python-telegram-bot ConversationHandler) collects "vibe"      *)
(* records and appends / edits / clears rows of a Google sheet.            *)
(*                                                                         *)
(* Texts are sequences of one-character strings, so that lower(), strip(), *)
(* int() and strptime() are computed character by character.               *)
(*                                                                         *)
(* One action per handler.  An update that no handler of the current       *)
(* conversation state matches is dropped by the ConversationHandler and    *)
(* changes nothing: it is a stuttering step.  Outbound chat calls          *)
(* (reply_text, edit_message_text, answer) are taken to succeed; calls to  *)
(* the sheet may fail (HTTP status other than 200), which raises out of    *)
(* the handler: the statements after the call do not run and the           *)
(* conversation state is not changed.                                      *)
(*                                                                         *)
(* Spec hands the updates to the handlers one at a time.  SpecWebhook      *)
(* lets the webhook hand over an update while the handler of an earlier    *)
(* one still awaits the sheet: each request to /webhook is served by a     *)
(* task of its own, and process_update reads the conversation state when   *)
(* it dispatches and writes it when the handler returns.                   *)
(***************************************************************************)
EXTENDS Integers, Sequences, FiniteSets

\* ------------------------------------------------------------------ bounds
\* Rows the sheet can hold, header included: an append beyond it is refused.
MaxRows == 4
\* Successful write requests the sheet accepts before it refuses them all.
MaxWrites == 1
\* Messages carrying an inline keyboard that a user's chat shows at once.
MaxKb == 2

\* ------------------------------------------------- conversation states
ASK_PASSWORD == 0
ASK_NAME == 1
ASK_DATE == 2
ASK_FOOD == 3
ASK_PLACE == 4
ASK_SPACIOUSNESS == 5
ASK_CONVO == 6
ASK_VIBE == 7
CONFIRM == 8
SELECT_RECORD_EDIT == 9
SHOW_CURRENT_DATA == 10
ASK_NEW_VALUE == 11
CONFIRM_EDIT == 12
SELECT_RECORD_DELETE == 13
CONFIRM_DELETE == 14
\* ConversationHandler.END: the conversation is over, no state is kept.
END == -1

\* Python's None: what dict.get() gives for an absent key.  No text equals it
\* (a text is a sequence of single characters).
None == <<"None">>

\* -------------------------------------------------------------- texts
UpperLetters == <<"A","B","C","D","E","F","G","H","I","J","K","L","M",
                  "N","O","P","Q","R","S","T","U","V","W","X","Y","Z">>
LowerLetters == <<"a","b","c","d","e","f","g","h","i","j","k","l","m",
                  "n","o","p","q","r","s","t","u","v","w","x","y","z">>
DigitChars == <<"0","1","2","3","4","5","6","7","8","9">>
Whitespace == {" ", "\n", "\t"}

LowerChar(c) ==
    IF \E i \in 1..26 : UpperLetters[i] = c
    THEN LowerLetters[CHOOSE i \in 1..26 : UpperLetters[i] = c]
    ELSE c

\* str.lower()
lower(t) == [i \in 1..Len(t) |-> LowerChar(t[i])]

IsDigit(c) == \E i \in 1..10 : DigitChars[i] = c
DigitVal(c) == (CHOOSE i \in 1..10 : DigitChars[i] = c) - 1

\* str.strip(): leading and trailing whitespace removed
strip(t) ==
    LET keep == {i \in 1..Len(t) : t[i] \notin Whitespace}
    IN  IF keep = {} THEN <<>>
        ELSE LET lo == CHOOSE i \in keep : \A j \in keep : i <= j
                 hi == CHOOSE i \in keep : \A j \in keep : j <= i
             IN  SubSeq(t, lo, hi)

RECURSIVE DigitsValue(_)
DigitsValue(ds) ==
    IF ds = <<>> THEN 0
    ELSE 10 * DigitsValue(SubSeq(ds, 1, Len(ds) - 1)) + DigitVal(ds[Len(ds)])

AllDigits(ds) == Len(ds) > 0 /\ \A i \in 1..Len(ds) : IsDigit(ds[i])

\* int(text): surrounding whitespace and one sign are allowed; for anything
\* else int() raises ValueError (IntOk is FALSE).
IntOk(t) ==
    LET s == strip(t)
    IN  /\ s # <<>>
        /\ IF s[1] \in {"+", "-"} THEN AllDigits(Tail(s)) ELSE AllDigits(s)

int(t) ==
    LET s == strip(t)
    IN  IF s[1] = "-" THEN 0 - DigitsValue(Tail(s))
        ELSE IF s[1] = "+" THEN DigitsValue(Tail(s))
        ELSE DigitsValue(s)

RECURSIVE NatStr(_)
NatStr(n) ==
    IF n < 10 THEN <<DigitChars[n + 1]>>
    ELSE NatStr(n \div 10) \o <<DigitChars[(n % 10) + 1]>>

\* str(n): the decimal text of an integer
IntStr(n) == IF n < 0 THEN <<"-">> \o NatStr(0 - n) ELSE NatStr(n)

\* ------------------------------------------------------------ dates
IsLeap(y) == (y % 4 = 0 /\ y % 100 # 0) \/ y % 400 = 0

\* Mutant of DaysInMonth: February has 28 days in every year
DaysInMonth_no_leap_day(y, m) ==
    IF m = 2 THEN 28
    ELSE IF m \in {4, 6, 9, 11} THEN 30 ELSE 31

DaysInMonth(y, m) ==
    IF m = 2 THEN (IF IsLeap(y) THEN 29 ELSE 28)
    ELSE IF m \in {4, 6, 9, 11} THEN 30 ELSE 31

\* %d : 3[0-1] | [1-2]\d | 0[1-9] | [1-9] | " "[1-9]
DayToken(s) ==
    \/ Len(s) = 2 /\ s[1] = "3" /\ s[2] \in {"0", "1"}
    \/ Len(s) = 2 /\ s[1] \in {"1", "2"} /\ IsDigit(s[2])
    \/ Len(s) = 2 /\ s[1] \in {"0", " "} /\ IsDigit(s[2]) /\ s[2] # "0"
    \/ Len(s) = 1 /\ IsDigit(s[1]) /\ s[1] # "0"

\* %m : 1[0-2] | 0[1-9] | [1-9]
MonthToken(s) ==
    \/ Len(s) = 2 /\ s[1] = "1" /\ s[2] \in {"0", "1", "2"}
    \/ Len(s) = 2 /\ s[1] = "0" /\ IsDigit(s[2]) /\ s[2] # "0"
    \/ Len(s) = 1 /\ IsDigit(s[1]) /\ s[1] # "0"

\* %Y : \d\d\d\d
YearToken(s) == Len(s) = 4 /\ AllDigits(s)

\* datetime.strptime(text, "%d/%m/%Y"): the date as <<year, month, day>>, or
\* <<>> where it raises ValueError.  The tokens hold no "/", so the text
\* splits at its two slashes.
strptime(t) ==
    LET sl == {i \in 1..Len(t) : t[i] = "/"}
    IN  IF Cardinality(sl) # 2 THEN <<>>
        ELSE LET i1 == CHOOSE i \in sl : \A j \in sl : i <= j
                 i2 == CHOOSE i \in sl : \A j \in sl : j <= i
                 dd == SubSeq(t, 1, i1 - 1)
                 mm == SubSeq(t, i1 + 1, i2 - 1)
                 yy == SubSeq(t, i2 + 1, Len(t))
             IN  IF ~(DayToken(dd) /\ MonthToken(mm) /\ YearToken(yy)) THEN <<>>
                 ELSE LET d == DigitsValue(strip(dd))
                          m == DigitsValue(mm)
                          y == DigitsValue(yy)
                      IN  IF y >= 1 /\ d <= DaysInMonth(y, m)
                          THEN <<y, m, d>> ELSE <<>>

is_valid_date(t) == strptime(t) # <<>>

\* Decimal digits outside ASCII, each one character, written by code point:
\* ARABIC-INDIC DIGIT ONE, FULLWIDTH DIGIT FIVE
OtherDecimals == {"U+0661", "U+FF15"}

\* \d in a pattern over str: any Unicode decimal digit
IsDecimal(c) == IsDigit(c) \/ c \in OtherDecimals

\* re.match(r"^\d{2}/\d{2}/\d{4}$", text); "$" also matches before a final "\n"
DatePattern(t) ==
    LET s == IF Len(t) = 11 /\ t[11] = "\n" THEN SubSeq(t, 1, 10) ELSE t
    IN  /\ Len(s) = 10
        /\ \A i \in {1, 2, 4, 5, 7, 8, 9, 10} : IsDecimal(s[i])
        /\ s[3] = "/" /\ s[6] = "/"

\* Order of two datetimes
DateBefore(a, b) ==
    \/ a[1] < b[1]
    \/ a[1] = b[1] /\ a[2] < b[2]
    \/ a[1] = b[1] /\ a[2] = b[2] /\ a[3] < b[3]


\* ------------------------------------------------------------ dicts
\* A Python dict is a function whose domain is the set of keys present.
EmptyDict == <<>>
Put(d, k, v) == [x \in (DOMAIN d) \cup {k} |-> IF x = k THEN v ELSE d[x]]
\* dict.get(k): None for an absent key
Get(d, k) == IF k \in DOMAIN d THEN d[k] ELSE None
\* dict.get(k, {})
GetDict(d, k) == IF k \in DOMAIN d THEN d[k] ELSE EmptyDict

\* ------------------------------------------------------- the sheet
\* The sheet as the values API reports it: a sequence of rows (row 1 is the
\* header), each a sequence of cell texts; blank cells at the end of a row and
\* blank rows at the end of the sheet are not reported.
RECURSIVE Trim(_)
Trim(s) == IF s # <<>> /\ s[Len(s)] = <<>> THEN Trim(SubSeq(s, 1, Len(s) - 1)) ELSE s

\* values.append on Sheet1!A1:G1: one row after the last row of the data
SheetAppend(s, cells) == Trim(s \o <<Trim(cells)>>)

\* values.update of the single cell (row, col)
SheetUpdate(s, row, col, text) ==
    LET rows == [r \in 1..(IF row > Len(s) THEN row ELSE Len(s)) |->
                    IF r <= Len(s) THEN s[r] ELSE <<>>]
        old  == rows[row]
        new  == [c \in 1..(IF col > Len(old) THEN col ELSE Len(old)) |->
                    IF c = col THEN text ELSE IF c <= Len(old) THEN old[c] ELSE <<>>]
    IN  Trim([rows EXCEPT ![row] = Trim(new)])

\* Mutant of SheetClear: the row is removed and the rows below it move up
SheetClear_rows_move_up(s, row) ==
    IF row > Len(s) THEN s
    ELSE Trim(SubSeq(s, 1, row - 1) \o SubSeq(s, row + 1, Len(s)))

\* values.clear of A<row>:G<row>: the row is blanked in place, nothing shifts
SheetClear(s, row) ==
    IF row > Len(s) THEN s ELSE Trim([s EXCEPT ![row] = <<>>])

\* Helper: Convert a column number to an Excel-style letter
RECURSIVE col_to_letter(_)
col_to_letter(n) ==
    IF n > 0
    THEN col_to_letter((n - 1) \div 26) \o <<UpperLetters[((n - 1) % 26) + 1]>>
    ELSE <<>>

\* The range a cell update addresses, as in the request URL, and the cell it
\* denotes in the sheet's own terms.
LetterValue(c) == CHOOSE i \in 1..26 : UpperLetters[i] = c
RECURSIVE ColumnOfLetters(_)
ColumnOfLetters(ls) ==
    IF ls = <<>> THEN 0
    ELSE 26 * ColumnOfLetters(SubSeq(ls, 1, Len(ls) - 1)) + LetterValue(ls[Len(ls)])

\* ----------------------------------------------- list_records_formatted
\* row -> datetime.strptime(row[1], "%d/%m/%Y"), <<>> where that raises
\* (IndexError for a row of fewer than two cells, ValueError for a bad date)
RECURSIVE RowDatesTo(_, _)
RowDatesTo(data, n) ==
    IF n = 0 THEN <<>>
    ELSE Append(RowDatesTo(data, n - 1),
                IF Len(data[n]) >= 2 THEN strptime(data[n][2]) ELSE <<>>)
RowDates(data) == RowDatesTo(data, Len(data))

\* valid_records, by sheet_index: the rows after the header whose date parses
ValidRows(data) == {i \in 2..Len(data) : RowDates(data)[i] # <<>>}

\* Mutant of SortedPlace: the sort without reverse=True, earliest date first
SortedPlace_oldest_first(dates, valid, i) ==
    1 + Cardinality({j \in valid :
            \/ DateBefore(dates[j], dates[i])
            \/ dates[j] = dates[i] /\ j < i})

\* valid_records.sort(key=date, reverse=True): the place of sheet row i after
\* the stable sort, latest date first
SortedPlace(dates, valid, i) ==
    1 + Cardinality({j \in valid :
            \/ DateBefore(dates[i], dates[j])
            \/ dates[j] = dates[i] /\ j < i})

\* mapping: counter -> {"index": sheet_index, "data": row}
ListMapping(data) ==
    LET dates == RowDates(data)
        valid == {i \in 2..Len(data) : dates[i] # <<>>}
    IN  [k \in 1..Cardinality(valid) |->
            LET i == CHOOSE r \in valid : SortedPlace(dates, valid, r) = k
            IN  [index |-> i, data |-> data[i]]]

\* Formatting a line reads row[6]: a dated row of fewer than seven cells raises
\* IndexError out of the listing.
ListRaises(data) == \E i \in ValidRows(data) : Len(data[i]) < 7

\* ------------------------------------------------------------ inputs
T_vibes == <<"v","i","b","e","s">>
T_Vibes == <<"V","i","b","e","s">>
T_yes == <<"y","e","s">>
T_YES == <<"Y","E","S">>
T_no == <<"n","o">>
T_good == <<"g","o","o","d">>
T_bad == <<"b","a","d">>
T_input == <<"i","n","p","u","t">>
T_edit == <<"e","d","i","t">>
T_delete == <<"d","e","l","e","t","e">>
T_rankings == <<"r","a","n","k","i","n","g","s">>
T_name == <<"n","a","m","e">>
T_date == <<"d","a","t","e">>
T_food == <<"f","o","o","d">>
T_place == <<"p","l","a","c","e">>
T_spaciousness == <<"s","p","a","c","i","o","u","s","n","e","s","s">>
T_convo == <<"c","o","n","v","o">>
T_vibe == <<"v","i","b","e">>
T_Convo == <<"C","o","n","v","o">>
T_cafe == <<"C","a","f","e">>
T_bar == <<"B","a","r">>
T_pub == <<"P","u","b">>
D_150624 == <<"1","5","/","0","6","/","2","0","2","4">>
D_100624 == <<"1","0","/","0","6","/","2","0","2","4">>
D_200624 == <<"2","0","/","0","6","/","2","0","2","4">>
D_310224 == <<"3","1","/","0","2","/","2","0","2","4">>
D_1_6_24 == <<"1","/","6","/","2","0","2","4">>
D_20_6_24 == <<"2","0","/","6","/","2","0","2","4">>

\* Inline keyboards and the callback data of their buttons
MAIN_MENU == "MAIN_MENU"
SCORE_BUTTONS == "SCORE_BUTTONS"
VIBE_BUTTONS == "VIBE_BUTTONS"
Keyboards == {MAIN_MENU, SCORE_BUTTONS, VIBE_BUTTONS}
Buttons(k) ==
    IF k = MAIN_MENU THEN {T_input, T_edit, T_rankings, T_delete}
    ELSE IF k = SCORE_BUTTONS THEN {IntStr(i) : i \in 1..5}
    ELSE {T_good, T_bad}

\* The users, and what they send (each handler is given every text of its set)
Users == {"u1"}
PasswordTexts == {T_vibes, T_Vibes, T_no}
NameTexts == {T_cafe}
DateTexts == {D_150624, D_310224, D_1_6_24}
ConfirmTexts == {T_yes, T_YES, T_no}
SelectTexts == {<<"1">>, <<" ","2"," ">>, <<"3">>, <<"x">>}
FieldTexts == {T_Convo, T_vibe, T_name}
\* The buttons the users press at each step, among those of the keyboards their
\* chat shows: the buttons the step offers, and buttons of earlier messages
MenuPressed == {T_input, T_edit, T_rankings, T_delete, <<"5">>}
FoodPressed == {<<"2">>, <<"5">>, T_input}
PlacePressed == {<<"3">>, T_input}
SpaciousnessPressed == {<<"4">>, T_input}
ConvoPressed == {<<"1">>, T_input}
VibePressed == {T_good, T_bad, T_input, <<"5">>}
NewValuePressed == {<<"5">>, T_bad, T_input}

\* The sheet at the start: the header alone, or the header and two records
\* of which the later one has the earlier date.
Header == <<<<"N">>, <<"D">>, <<"F">>, <<"P">>, <<"S">>, <<"C">>, <<"V">>>>
InitSheets ==
    { <<Header>>,
      <<Header,
        <<T_bar, D_200624, <<"4">>, <<"3">>, <<"2">>, <<"1">>, T_good>>,
        <<T_pub, D_100624, <<"1">>, <<"2">>, <<"3">>, <<"4">>, T_bad>> >> }

\* Rows a sheet may hold when the listing is checked over sheets of every
\* shape: two records, a record of an impossible date, a cleared row, a dated
\* row of two cells, and a record whose date is written without padding and
\* equals that of the first.
RowPool ==
    { <<T_bar, D_200624, <<"4">>, <<"3">>, <<"2">>, <<"1">>, T_good>>,
      <<T_pub, D_100624, <<"1">>, <<"2">>, <<"3">>, <<"4">>, T_bad>>,
      <<T_pub, D_310224, <<"1">>, <<"2">>, <<"3">>, <<"4">>, T_bad>>,
      <<>>,
      <<T_cafe, D_1_6_24>>,
      <<T_cafe, D_20_6_24, <<"5">>, <<"5">>, <<"5">>, <<"5">>, T_good>> }
\* Rows below the header in those sheets
MaxListRows == 3
RECURSIVE SeqsUpTo(_, _)
SeqsUpTo(S, n) ==
    IF n = 0 THEN {<<>>}
    ELSE LET shorter == SeqsUpTo(S, n - 1)
         IN  shorter \cup {Append(q, x) : q \in shorter, x \in S}
ListSheets == {<<>>} \cup {Trim(<<Header>> \o rows) : rows \in SeqsUpTo(RowPool, MaxListRows)}

\* ------------------------------------------------------------- state
VARIABLES
    conv,       \* user -> state of the user's conversation, END when none is kept
    user_data,  \* user -> context.user_data, a dict
    sheet,      \* Sheet1
    quota,      \* write requests the sheet still accepts
    chat,       \* user -> keyboard -> messages of the chat that carry it
    passed,     \* user -> the user has sent the password when asked for it
    last,       \* the update handled last: who, which handler, in which state,
                \* its text or callback data, the sheet calls made, and
                \* whether the handler raised
    inflight,   \* the updates handed to process_update whose handler has
                \* started and awaits the answer to its request
    converting  \* the call of col_to_letter in progress: its argument, the
                \* loop's n and result, and whether it has returned

vars == <<conv, user_data, sheet, quota, chat, passed, last, inflight, converting>>

\* No call of col_to_letter is followed step by step
NoConversion == [col |-> 0, n |-> 0, result |-> <<>>, returned |-> FALSE]

\* What show_rankings puts in the pressed message: the text, and with the
\* ranking the attributes in their order and the averages, each the pair
\* <<sum, count>> whose quotient it is.
NoReport == [text |-> "", ranking |-> <<>>, good_avg |-> <<>>, bad_avg |-> <<>>]

NoUpdate == [user |-> "", handler |-> "", state |-> END, input |-> <<>>,
             calls |-> <<>>, raised |-> FALSE, report |-> NoReport]

Init ==
    /\ conv = [u \in Users |-> END]
    /\ user_data = [u \in Users |-> EmptyDict]
    /\ sheet \in InitSheets
    /\ quota = MaxWrites
    /\ chat = [u \in Users |-> [k \in Keyboards |-> 0]]
    /\ passed = [u \in Users |-> FALSE]
    /\ last = NoUpdate
    /\ inflight = <<>>
    /\ converting = NoConversion

Shown(u) == chat[u][MAIN_MENU] + chat[u][SCORE_BUTTONS] + chat[u][VIBE_BUTTONS]

\* reply_text(..., reply_markup=k): a new message carrying keyboard k
CanReply(u) == Shown(u) < MaxKb
Reply(u, k) == chat' = [chat EXCEPT ![u][k] = @ + 1]

\* edit_message_text on the message whose button (of keyboard k) was pressed:
\* without reply_markup the message loses its keyboard, with one it carries it
EditPlain(u, k) == chat' = [chat EXCEPT ![u][k] = @ - 1]
EditWith(u, k, k2) ==
    chat' = [chat EXCEPT ![u] = [[@ EXCEPT ![k] = @ - 1] EXCEPT ![k2] = @ + 1]]

\* A callback query: a button of a keyboard the user's chat shows
Press(u, k, d) == chat[u][k] > 0 /\ d \in Buttons(k)

\* An update handled from its dispatch to the return of its handler in one
\* step: no handler is left in progress.
HandledReport(u, h, input, calls, raised, report) ==
    /\ last' = [user |-> u, handler |-> h, state |-> conv[u], input |-> input,
                calls |-> calls, raised |-> raised, report |-> report]
    /\ UNCHANGED <<inflight, converting>>

Handled(u, h, input, calls, raised) == HandledReport(u, h, input, calls, raised, NoReport)

Call(op, args) == [op |-> op, args |-> args]


\* ------------------------------------------------------ show_rankings
\* attrs = {"food": 2, "place": 3, "spaciousness": 4, "convo": 5}, in the
\* order of the dict; attr_col is the cell of the row that row[col] reads.
attrs == <<"food", "place", "spaciousness", "convo">>
attr_col(a) == a + 2

\* Mutant of good_vibes: the label compared without lower()
good_vibes_exact_case(data) ==
    {i \in 2..Len(data) : Len(data[i]) >= 7 /\ data[i][7] = T_good}

\* The rows after the header of seven cells or more whose label is good / bad
good_vibes(data) ==
    {i \in 2..Len(data) : Len(data[i]) >= 7 /\ lower(data[i][7]) = T_good}
bad_vibes(data) ==
    {i \in 2..Len(data) : Len(data[i]) >= 7 /\ lower(data[i][7]) = T_bad}

\* sum(int(row[col]) for row in rows); int() raises where ScoresOk is FALSE
ScoresOk(data, rows) == \A i \in rows, a \in 1..4 : IntOk(data[i][attr_col(a)])
RECURSIVE SumScores(_, _, _)
SumScores(data, rows, c) ==
    IF rows = {} THEN 0
    ELSE LET i == CHOOSE r \in rows : TRUE
         IN  int(data[i][c]) + SumScores(data, rows \ {i}, c)

\* s / n and x - y are computed in binary64 (53 significant bits, round to
\* nearest, ties to even).  For s >= n >= 1 the quotient is M * 2^e / 2^52 with
\* e = floor(log2(s / n)) and M the rounded s * 2^(52 - e) / n; it is kept as
\* the exact s / n with the amount c / (n * 2^52) the rounding took off it, and
\* its count of units of 2^-52 modulo 4.
RECURSIVE Exponent(_, _)
Exponent(s, n) == IF s < 2 * n THEN 0 ELSE 1 + Exponent(s, 2 * n)

RECURSIVE Pow2(_)
Pow2(k) == IF k = 0 THEN 1 ELSE 2 * Pow2(k - 1)

\* (s * 2^k) mod m
RECURSIVE ScaledMod(_, _, _)
ScaledMod(s, k, m) == IF k = 0 THEN s % m ELSE (2 * ScaledMod(s, k - 1, m)) % m

TrueDiv(s, n) ==
    LET e == Exponent(s, n)
        r == ScaledMod(s, 52 - e, n)
        m0 == (ScaledMod(s, 52 - e, 4 * n) - r) \div n
        up == IF 2 * r > n \/ (2 * r = n /\ m0 % 2 = 1) THEN 1 ELSE 0
    IN  [s |-> s, n |-> n, c |-> Pow2(e) * (r - n * up),
         m4 |-> (Pow2(e) * (m0 + up)) % 4]

\* x - y for quotients of magnitude at most 5: the pair <<N, d>> stands for
\* (N * 2^52 + d) / (x.n * y.n * 2^52).  A difference of magnitude 2 or more
\* has units of 2^-51 and is rounded to one.
FloatSub(x, y) ==
    LET N == x.s * y.n - y.s * x.n
        P == x.n * y.n
        C == x.c * y.n - y.c * x.n
        big == \/ N > 2 * P \/ (N = 2 * P /\ C <= 0)
               \/ N < 0 - 2 * P \/ (N = 0 - 2 * P /\ C >= 0)
        d4 == (x.m4 - y.m4 + 4) % 4
        adj == IF big /\ d4 = 1 THEN 0 - 1 ELSE IF big /\ d4 = 3 THEN 1 ELSE 0
    IN  <<N, adj * P - C>>

\* x < y for two differences over the same counts
FloatLess(x, y) == x[1] < y[1] \/ (x[1] = y[1] /\ x[2] < y[2])

\* sorted(diffs.items(), key=lambda x: x[1], reverse=True): the attributes by
\* falling difference, equal differences in the order of attrs
Ranking(good_avg, bad_avg) ==
    LET diff(a) == FloatSub(TrueDiv(good_avg[a][1], good_avg[a][2]),
                            TrueDiv(bad_avg[a][1], bad_avg[a][2]))
        diffs == <<diff(1), diff(2), diff(3), diff(4)>>
        at(a) == 1 + Cardinality({x \in 1..4 :
                        \/ FloatLess(diffs[a], diffs[x])
                        \/ diffs[x] = diffs[a] /\ x < a})
        place == <<at(1), at(2), at(3), at(4)>>
        attr(k) == attrs[CHOOSE a \in 1..4 : place[a] = k]
    IN  <<attr(1), attr(2), attr(3), attr(4)>>

\* show_rankings: what the pressed message is edited to, given the sheet and
\* whether its read is answered 200
show_rankings(data, ok) ==
    LET good == good_vibes(data)
        bad == bad_vibes(data)
        avg(rows, a) == <<SumScores(data, rows, attr_col(a)), Cardinality(rows)>>
        good_avg == <<avg(good, 1), avg(good, 2), avg(good, 3), avg(good, 4)>>
        bad_avg == <<avg(bad, 1), avg(bad, 2), avg(bad, 3), avg(bad, 4)>>
    IN  IF ~ok THEN [NoReport EXCEPT !.text = "Error retrieving data."]
        ELSE IF good = {} \/ bad = {}
        THEN [NoReport EXCEPT !.text = "Not enough data for rankings."]
        ELSE IF ~ScoresOk(data, good) \/ ~ScoresOk(data, bad)
        THEN [NoReport EXCEPT !.text = "Error calculating averages."]
        ELSE [text |-> "Ranking of attributes for good vibes:",
              ranking |-> Ranking(good_avg, bad_avg),
              good_avg |-> good_avg, bad_avg |-> bad_avg]

\* ------------------------------------------------- sheet requests
\* A request is answered 200 (ok) or not; a write is answered 200 only while
\* the sheet accepts writes, an append only while the sheet has room.
CanWrite == quota > 0
CanAppend == quota > 0 /\ Len(sheet) < MaxRows

\* append_row(values): raises unless the answer is 200
append_row(cells, ok) ==
    IF ok THEN sheet' = SheetAppend(sheet, cells) /\ quota' = quota - 1
    ELSE UNCHANGED <<sheet, quota>>

\* update_cell(row, col, value): the cell is addressed by its column letters
update_cell(row, col, value, ok) ==
    IF ok
    THEN /\ sheet' = SheetUpdate(sheet, row, ColumnOfLetters(col_to_letter(col)), value)
         /\ quota' = quota - 1
    ELSE UNCHANGED <<sheet, quota>>

\* delete_row(row_index)
delete_row(row_index, ok) ==
    IF ok THEN sheet' = SheetClear(sheet, row_index) /\ quota' = quota - 1
    ELSE UNCHANGED <<sheet, quota>>

\* ---------------------------------------------------------- handlers
RecordKeys == <<"name", "date", "food", "place", "spaciousness", "convo", "vibe">>

Stay(u) == UNCHANGED conv
Goto(u, st) == conv' = [conv EXCEPT ![u] = st]
\* Mutant of Clear: the session data of every user is cleared
Clear_every_user(u) == user_data' = [x \in DOMAIN user_data |-> EmptyDict]
Clear(u) == user_data' = [user_data EXCEPT ![u] = EmptyDict]
SetData(u, k, v) == user_data' = [user_data EXCEPT ![u] = Put(@, k, v)]

\* /start with no conversation kept (entry point)
start_handler(u) ==
    /\ conv[u] = END
    /\ Goto(u, ASK_PASSWORD)
    /\ Handled(u, "start_handler", <<>>, <<>>, FALSE)
    /\ UNCHANGED <<user_data, sheet, quota, chat, passed>>

\* Mutant of ask_password_handler: the password compared without regard to case
ask_password_handler_any_case(u, t) ==
    /\ conv[u] = ASK_PASSWORD
    /\ IF lower(t) = T_vibes
       THEN /\ CanReply(u)
            /\ Reply(u, MAIN_MENU)
            /\ Goto(u, END)
            /\ passed' = [passed EXCEPT ![u] = TRUE]
       ELSE /\ Stay(u)
            /\ UNCHANGED <<chat, passed>>
    /\ Handled(u, "ask_password_handler", t, <<>>, FALSE)
    /\ UNCHANGED <<user_data, sheet, quota>>

ask_password_handler(u, t) ==
    /\ conv[u] = ASK_PASSWORD
    /\ IF t = T_vibes
       THEN /\ CanReply(u)
            /\ Reply(u, MAIN_MENU)
            /\ Goto(u, END)
            /\ passed' = [passed EXCEPT ![u] = TRUE]
       ELSE /\ Stay(u)
            /\ UNCHANGED <<chat, passed>>
    /\ Handled(u, "ask_password_handler", t, <<>>, FALSE)
    /\ UNCHANGED <<user_data, sheet, quota>>

\* A button pressed with no conversation kept (entry point).  The listing
\* reads the sheet; a refused read, or a listing that raises, raises out of
\* the handler.  show_rankings catches a refused read and reports it.
button_handler(u, k, d, ok) ==
    /\ conv[u] = END
    /\ Press(u, k, d)
    /\ UNCHANGED <<sheet, quota, passed>>
    /\ IF d = T_input
       THEN /\ ok
            /\ EditPlain(u, k)
            /\ Goto(u, ASK_NAME)
            /\ Handled(u, "button_handler", d, <<>>, FALSE)
            /\ UNCHANGED user_data
       ELSE IF d \in {T_edit, T_delete}
       THEN IF ~ok \/ ListRaises(sheet)
            THEN /\ Handled(u, "button_handler", d, <<Call("get_all_values", <<>>)>>, TRUE)
                 /\ UNCHANGED <<conv, user_data, chat>>
            ELSE /\ Handled(u, "button_handler", d, <<Call("get_all_values", <<>>)>>, FALSE)
                 /\ EditPlain(u, k)
                 /\ LET mapping == ListMapping(sheet)
                    IN  IF mapping # <<>>
                        THEN /\ SetData(u, IF d = T_edit THEN "record_list_edit"
                                           ELSE "record_list_delete", mapping)
                             /\ Goto(u, IF d = T_edit THEN SELECT_RECORD_EDIT
                                        ELSE SELECT_RECORD_DELETE)
                        ELSE /\ Goto(u, END)
                             /\ UNCHANGED user_data
       ELSE IF d = T_rankings
       THEN /\ HandledReport(u, "button_handler", d, <<Call("get_all_values", <<>>)>>,
                             FALSE, show_rankings(sheet, ok))
            /\ EditPlain(u, k)
            /\ Goto(u, END)
            /\ UNCHANGED user_data
       ELSE /\ ok
            /\ Handled(u, "button_handler", d, <<>>, FALSE)
            /\ Goto(u, END)
            /\ UNCHANGED <<user_data, chat>>

ask_name_handler(u, t) ==
    /\ conv[u] = ASK_NAME
    /\ SetData(u, "vibe_data", [name |-> t])
    /\ Goto(u, ASK_DATE)
    /\ Handled(u, "ask_name_handler", t, <<>>, FALSE)
    /\ UNCHANGED <<sheet, quota, chat, passed>>

\* Mutant of ask_date_handler: the text is stored before it is validated
ask_date_handler_store_first(u, t) ==
    /\ conv[u] = ASK_DATE
    /\ SetData(u, "vibe_data", Put(user_data[u]["vibe_data"], "date", t))
    /\ IF ~DatePattern(t) \/ ~is_valid_date(t)
       THEN /\ Stay(u)
            /\ UNCHANGED chat
       ELSE /\ CanReply(u)
            /\ Reply(u, SCORE_BUTTONS)
            /\ Goto(u, ASK_FOOD)
    /\ Handled(u, "ask_date_handler", t, <<>>, FALSE)
    /\ UNCHANGED <<sheet, quota, passed>>

ask_date_handler(u, t) ==
    /\ conv[u] = ASK_DATE
    /\ IF ~DatePattern(t) \/ ~is_valid_date(t)
       THEN /\ Stay(u)
            /\ UNCHANGED <<user_data, chat>>
       ELSE /\ CanReply(u)
            /\ SetData(u, "vibe_data", Put(user_data[u]["vibe_data"], "date", t))
            /\ Reply(u, SCORE_BUTTONS)
            /\ Goto(u, ASK_FOOD)
    /\ Handled(u, "ask_date_handler", t, <<>>, FALSE)
    /\ UNCHANGED <<sheet, quota, passed>>

\* The four score steps: int(query.data) is stored under the step's key and
\* the pressed message is edited to the next prompt with the next keyboard;
\* on ValueError the message is edited to the error text and the step stays.
AskScore(u, k, d, h, st, key, nextKb, nextSt) ==
    /\ conv[u] = st
    /\ Press(u, k, d)
    /\ IF IntOk(d)
       THEN /\ SetData(u, "vibe_data", Put(user_data[u]["vibe_data"], key, int(d)))
            /\ EditWith(u, k, nextKb)
            /\ Goto(u, nextSt)
       ELSE /\ EditPlain(u, k)
            /\ Stay(u)
            /\ UNCHANGED user_data
    /\ Handled(u, h, d, <<>>, FALSE)
    /\ UNCHANGED <<sheet, quota, passed>>

ask_food_handler(u, k, d) ==
    AskScore(u, k, d, "ask_food_handler", ASK_FOOD, "food", SCORE_BUTTONS, ASK_PLACE)

ask_place_handler(u, k, d) ==
    AskScore(u, k, d, "ask_place_handler", ASK_PLACE, "place", SCORE_BUTTONS,
             ASK_SPACIOUSNESS)

ask_spaciousness_handler(u, k, d) ==
    AskScore(u, k, d, "ask_spaciousness_handler", ASK_SPACIOUSNESS, "spaciousness",
             SCORE_BUTTONS, ASK_CONVO)

\* Mutant of ask_convo_handler: the vibe step is left out
ask_convo_handler_skips_vibe(u, k, d) ==
    AskScore(u, k, d, "ask_convo_handler", ASK_CONVO, "convo", VIBE_BUTTONS, CONFIRM)

ask_convo_handler(u, k, d) ==
    AskScore(u, k, d, "ask_convo_handler", ASK_CONVO, "convo", VIBE_BUTTONS, ASK_VIBE)

ask_vibe_handler(u, k, d) ==
    /\ conv[u] = ASK_VIBE
    /\ Press(u, k, d)
    /\ SetData(u, "vibe_data", Put(user_data[u]["vibe_data"], "vibe", d))
    /\ EditPlain(u, k)
    /\ Goto(u, CONFIRM)
    /\ Handled(u, "ask_vibe_handler", d, <<>>, FALSE)
    /\ UNCHANGED <<sheet, quota, passed>>

\* The list handed to append_row, and the cells it becomes: the scores were
\* stored by int() and are written as numbers, an absent key as null.
RowValues(data) == [i \in 1..7 |-> Get(data, RecordKeys[i])]
RowCells(data) ==
    [i \in 1..7 |->
        IF RecordKeys[i] \notin DOMAIN data THEN <<>>
        ELSE IF i \in 3..6 THEN IntStr(data[RecordKeys[i]])
        ELSE data[RecordKeys[i]]]

\* Mutant of confirm_handler: the record is appended whatever the reply
confirm_handler_any_reply(u, t, ok) ==
    /\ conv[u] = CONFIRM
    /\ UNCHANGED passed
    /\ LET data == GetDict(user_data[u], "vibe_data")
           call == Call("append_row", <<RowValues(data)>>)
       IN  /\ ok => CanAppend
           /\ append_row(RowCells(data), ok)
           /\ IF ok
              THEN /\ CanReply(u)
                   /\ Reply(u, MAIN_MENU)
                   /\ Clear(u)
                   /\ Goto(u, END)
                   /\ Handled(u, "confirm_handler", t, <<call>>, FALSE)
              ELSE /\ Handled(u, "confirm_handler", t, <<call>>, TRUE)
                   /\ UNCHANGED <<conv, user_data, chat>>

confirm_handler(u, t, ok) ==
    /\ conv[u] = CONFIRM
    /\ UNCHANGED passed
    /\ IF lower(t) = T_yes
       THEN LET data == GetDict(user_data[u], "vibe_data")
                call == Call("append_row", <<RowValues(data)>>)
            IN  /\ ok => CanAppend
                /\ append_row(RowCells(data), ok)
                /\ IF ok
                   THEN /\ CanReply(u)
                        /\ Reply(u, MAIN_MENU)
                        /\ Clear(u)
                        /\ Goto(u, END)
                        /\ Handled(u, "confirm_handler", t, <<call>>, FALSE)
                   ELSE /\ Handled(u, "confirm_handler", t, <<call>>, TRUE)
                        /\ UNCHANGED <<conv, user_data, chat>>
       ELSE /\ ok
            /\ CanReply(u)
            /\ Reply(u, MAIN_MENU)
            /\ Clear(u)
            /\ Goto(u, END)
            /\ Handled(u, "confirm_handler", t, <<>>, FALSE)
            /\ UNCHANGED <<sheet, quota>>


\* The two selection steps: int(text.strip()) must be a key of the mapping
\* kept by the menu press; the chosen reference is stored, then shown.
SelectRecord(u, t, h, st, listKey, selKey, nextSt) ==
    /\ conv[u] = st
    /\ UNCHANGED <<sheet, quota, chat, passed>>
    /\ LET mapping == GetDict(user_data[u], listKey)
       IN  IF ~IntOk(strip(t))
           THEN /\ Stay(u)
                /\ UNCHANGED user_data
                /\ Handled(u, h, t, <<>>, FALSE)
           ELSE IF int(strip(t)) \notin DOMAIN mapping
           THEN /\ Stay(u)
                /\ UNCHANGED user_data
                /\ Handled(u, h, t, <<>>, FALSE)
           ELSE /\ SetData(u, selKey, mapping[int(strip(t))])
                /\ IF Len(mapping[int(strip(t))].data) < 7
                   THEN Stay(u) /\ Handled(u, h, t, <<>>, TRUE)
                   ELSE Goto(u, nextSt) /\ Handled(u, h, t, <<>>, FALSE)

select_record_edit_handler(u, t) ==
    SelectRecord(u, t, "select_record_edit_handler", SELECT_RECORD_EDIT,
                 "record_list_edit", "selected_record_edit", SHOW_CURRENT_DATA)

select_record_delete_handler(u, t) ==
    SelectRecord(u, t, "select_record_delete_handler", SELECT_RECORD_DELETE,
                 "record_list_delete", "selected_record_delete", CONFIRM_DELETE)

confirm_delete_handler(u, t, ok) ==
    /\ conv[u] = CONFIRM_DELETE
    /\ UNCHANGED passed
    /\ IF lower(t) = T_yes /\ "selected_record_delete" \in DOMAIN user_data[u]
       THEN LET record == user_data[u]["selected_record_delete"]
                call == Call("delete_row", <<record.index>>)
            IN  /\ ok => CanWrite
                /\ delete_row(record.index, ok)
                /\ IF ok
                   THEN /\ CanReply(u)
                        /\ Reply(u, MAIN_MENU)
                        /\ Clear(u)
                        /\ Goto(u, END)
                        /\ Handled(u, "confirm_delete_handler", t, <<call>>, FALSE)
                   ELSE /\ Handled(u, "confirm_delete_handler", t, <<call>>, TRUE)
                        /\ UNCHANGED <<conv, user_data, chat>>
       ELSE /\ ok
            /\ CanReply(u)
            /\ Reply(u, MAIN_MENU)
            /\ Clear(u)
            /\ Goto(u, END)
            /\ Handled(u, "confirm_delete_handler", t, <<>>, FALSE)
            /\ UNCHANGED <<sheet, quota>>

show_current_data_handler(u, t) ==
    /\ conv[u] = SHOW_CURRENT_DATA
    /\ SetData(u, "field_to_edit", lower(t))
    /\ IF lower(t) \in {T_food, T_place, T_spaciousness, T_convo}
       THEN CanReply(u) /\ Reply(u, SCORE_BUTTONS) /\ Goto(u, ASK_NEW_VALUE)
       ELSE IF lower(t) = T_vibe
       THEN CanReply(u) /\ Reply(u, VIBE_BUTTONS) /\ Goto(u, ASK_NEW_VALUE)
       ELSE Stay(u) /\ UNCHANGED chat
    /\ Handled(u, "show_current_data_handler", t, <<>>, FALSE)
    /\ UNCHANGED <<sheet, quota, passed>>

ask_new_value_handler(u, k, d) ==
    /\ conv[u] = ASK_NEW_VALUE
    /\ Press(u, k, d)
    /\ SetData(u, "new_value", d)
    /\ EditPlain(u, k)
    /\ Goto(u, CONFIRM_EDIT)
    /\ Handled(u, "ask_new_value_handler", d, <<>>, FALSE)
    /\ UNCHANGED <<sheet, quota, passed>>

\* col_map = {"food": 3, "place": 4, "spaciousness": 5, "convo": 6, "vibe": 7}
InColMap(field) == field \in {T_food, T_place, T_spaciousness, T_convo, T_vibe}
\* Mutant of col_map: the columns counted from zero, as the row's list is
col_map_from_zero(field) ==
    CASE field = T_food -> 2
      [] field = T_place -> 3
      [] field = T_spaciousness -> 4
      [] field = T_convo -> 5
      [] field = T_vibe -> 6

col_map(field) ==
    CASE field = T_food -> 3
      [] field = T_place -> 4
      [] field = T_spaciousness -> 5
      [] field = T_convo -> 6
      [] field = T_vibe -> 7

confirm_edit_handler(u, t, ok) ==
    /\ conv[u] = CONFIRM_EDIT
    /\ UNCHANGED passed
    /\ LET record == user_data[u]["selected_record_edit"]
           field == Get(user_data[u], "field_to_edit")
           new_value == Get(user_data[u], "new_value")
       IN  IF /\ lower(t) = T_yes
              /\ InColMap(field)
              /\ "selected_record_edit" \in DOMAIN user_data[u]
           THEN LET call == Call("update_cell",
                                 <<record.index, col_map(field), new_value>>)
                IN  /\ ok => CanWrite
                    /\ update_cell(record.index, col_map(field), new_value, ok)
                    /\ IF ok
                       THEN /\ CanReply(u)
                            /\ Reply(u, MAIN_MENU)
                            /\ Clear(u)
                            /\ Goto(u, END)
                            /\ Handled(u, "confirm_edit_handler", t, <<call>>, FALSE)
                       ELSE /\ Handled(u, "confirm_edit_handler", t, <<call>>, TRUE)
                            /\ UNCHANGED <<conv, user_data, chat>>
           ELSE /\ ok
                /\ IF lower(t) = T_yes
                   THEN UNCHANGED chat
                   ELSE CanReply(u) /\ Reply(u, MAIN_MENU)
                /\ Clear(u)
                /\ Goto(u, END)
                /\ Handled(u, "confirm_edit_handler", t, <<>>, FALSE)
                /\ UNCHANGED <<sheet, quota>>

\* Mutant of cancel_handler: user_data is not cleared
cancel_handler_keeps_data(u) ==
    /\ conv[u] # END
    /\ CanReply(u)
    /\ Reply(u, MAIN_MENU)
    /\ Goto(u, END)
    /\ Handled(u, "cancel_handler", <<>>, <<>>, FALSE)
    /\ UNCHANGED <<user_data, sheet, quota, passed>>

\* /cancel while a conversation is kept (fallback)
cancel_handler(u) ==
    /\ conv[u] # END
    /\ CanReply(u)
    /\ Reply(u, MAIN_MENU)
    /\ Clear(u)
    /\ Goto(u, END)
    /\ Handled(u, "cancel_handler", <<>>, <<>>, FALSE)
    /\ UNCHANGED <<sheet, quota, passed>>

\* ------------------------------------------------------ specification
Next ==
    \E u \in Users :
        \/ start_handler(u)
        \/ \E t \in PasswordTexts : ask_password_handler(u, t)
        \/ \E k \in Keyboards, d \in MenuPressed, ok \in BOOLEAN : button_handler(u, k, d, ok)
        \/ \E t \in NameTexts : ask_name_handler(u, t)
        \/ \E t \in DateTexts : ask_date_handler(u, t)
        \/ \E k \in Keyboards, d \in FoodPressed : ask_food_handler(u, k, d)
        \/ \E k \in Keyboards, d \in PlacePressed : ask_place_handler(u, k, d)
        \/ \E k \in Keyboards, d \in SpaciousnessPressed : ask_spaciousness_handler(u, k, d)
        \/ \E k \in Keyboards, d \in ConvoPressed : ask_convo_handler(u, k, d)
        \/ \E k \in Keyboards, d \in VibePressed : ask_vibe_handler(u, k, d)
        \/ \E t \in ConfirmTexts, ok \in BOOLEAN : confirm_handler(u, t, ok)
        \/ \E t \in SelectTexts : select_record_edit_handler(u, t)
        \/ \E t \in FieldTexts : show_current_data_handler(u, t)
        \/ \E k \in Keyboards, d \in NewValuePressed : ask_new_value_handler(u, k, d)
        \/ \E t \in ConfirmTexts, ok \in BOOLEAN : confirm_edit_handler(u, t, ok)
        \/ \E t \in SelectTexts : select_record_delete_handler(u, t)
        \/ \E t \in ConfirmTexts, ok \in BOOLEAN : confirm_delete_handler(u, t, ok)
        \/ cancel_handler(u)

Spec == Init /\ [][Next]_vars


\* The listing over sheets of every shape, which no write changes
InitListing ==
    /\ conv = [u \in Users |-> END]
    /\ user_data = [u \in Users |-> EmptyDict]
    /\ sheet \in ListSheets
    /\ quota = 0
    /\ chat = [u \in Users |-> [k \in Keyboards |-> 0]]
    /\ passed = [u \in Users |-> FALSE]
    /\ last = NoUpdate
    /\ inflight = <<>>
    /\ converting = NoConversion

NextListing ==
    \E u \in Users :
        \/ start_handler(u)
        \/ \E t \in PasswordTexts : ask_password_handler(u, t)
        \/ \E k \in Keyboards, d \in MenuPressed, ok \in BOOLEAN : button_handler(u, k, d, ok)
        \/ \E t \in SelectTexts : select_record_edit_handler(u, t)
        \/ \E t \in SelectTexts : select_record_delete_handler(u, t)
        \/ cancel_handler(u)

SpecListing == InitListing /\ [][NextListing]_vars


\* ----------------------------------------------------------- webhook
\* Updates whose handlers may be in progress at once
MaxInflight == 2

\* POST /webhook for a text sent in CONFIRM: process_update finds the
\* conversation in CONFIRM and calls confirm_handler, which reads vibe_data,
\* sends its request (the append on "yes", the reply otherwise) and awaits the
\* answer.  The conversation state is written when the handler returns.
webhook_confirm_handler(u, t) ==
    /\ conv[u] = CONFIRM
    /\ Len(inflight) < MaxInflight
    /\ inflight' = Append(inflight, [user |-> u, state |-> conv[u], input |-> t,
                                     data |-> GetDict(user_data[u], "vibe_data")])
    /\ UNCHANGED <<conv, user_data, sheet, quota, chat, passed, last, converting>>

\* The answer to the request of the i-th handler in progress arrives: the
\* rest of confirm_handler runs and process_update writes the state returned.
confirm_handler_returns(i, ok) ==
    /\ i \in 1..Len(inflight)
    /\ LET task == inflight[i]
           u == task.user
           call == Call("append_row", <<RowValues(task.data)>>)
       IN  /\ inflight' = SubSeq(inflight, 1, i - 1) \o SubSeq(inflight, i + 1, Len(inflight))
           /\ UNCHANGED converting
           /\ UNCHANGED passed
           /\ IF lower(task.input) = T_yes
              THEN /\ ok => CanAppend
                   /\ append_row(RowCells(task.data), ok)
                   /\ last' = [user |-> u, handler |-> "confirm_handler",
                               state |-> task.state, input |-> task.input,
                               calls |-> <<call>>, raised |-> ~ok,
                               report |-> NoReport]
                   /\ IF ok
                      THEN /\ CanReply(u)
                           /\ Reply(u, MAIN_MENU)
                           /\ Clear(u)
                           /\ Goto(u, END)
                      ELSE UNCHANGED <<conv, user_data, chat>>
              ELSE /\ ok
                   /\ CanReply(u)
                   /\ Reply(u, MAIN_MENU)
                   /\ Clear(u)
                   /\ Goto(u, END)
                   /\ last' = [user |-> u, handler |-> "confirm_handler",
                               state |-> task.state, input |-> task.input,
                               calls |-> <<>>, raised |-> FALSE,
                               report |-> NoReport]
                   /\ UNCHANGED <<sheet, quota>>

\* The create flow with the updates sent in CONFIRM handled as the webhook
\* hands them over; the sheet accepts one write for each of them.
InitWebhook ==
    /\ conv = [u \in Users |-> END]
    /\ user_data = [u \in Users |-> EmptyDict]
    /\ sheet \in InitSheets
    /\ quota = MaxInflight
    /\ chat = [u \in Users |-> [k \in Keyboards |-> 0]]
    /\ passed = [u \in Users |-> FALSE]
    /\ last = NoUpdate
    /\ inflight = <<>>
    /\ converting = NoConversion

NextWebhook ==
    \/ \E u \in Users, t \in {T_yes, T_no} : webhook_confirm_handler(u, t)
    \/ \E i \in 1..MaxInflight, ok \in BOOLEAN : confirm_handler_returns(i, ok)
    \/ \E u \in Users :
        \/ start_handler(u)
        \/ ask_password_handler(u, T_vibes)
        \/ \E k \in Keyboards, ok \in BOOLEAN : button_handler(u, k, T_input, ok)
        \/ \E t \in NameTexts : ask_name_handler(u, t)
        \/ ask_date_handler(u, D_150624)
        \/ \E k \in Keyboards : ask_food_handler(u, k, <<"2">>)
        \/ \E k \in Keyboards : ask_place_handler(u, k, <<"3">>)
        \/ \E k \in Keyboards : ask_spaciousness_handler(u, k, <<"4">>)
        \/ \E k \in Keyboards : ask_convo_handler(u, k, <<"1">>)
        \/ \E k \in Keyboards, d \in {T_good, T_bad} : ask_vibe_handler(u, k, d)
        \/ cancel_handler(u)

SpecWebhook == InitWebhook /\ [][NextWebhook]_vars


\* POST /webhook for a button pressed with no conversation kept:
\* process_update finds no state, takes the entry point and calls
\* button_handler, which answers the query and, for a listing or the
\* rankings, sends its read request and awaits the answer.
webhook_button_handler(u, k, d) ==
    /\ conv[u] = END
    /\ Press(u, k, d)
    /\ Len(inflight) < MaxInflight
    /\ inflight' = Append(inflight, [user |-> u, state |-> conv[u], input |-> d,
                                     keyboard |-> k])
    /\ UNCHANGED <<conv, user_data, sheet, quota, chat, passed, last, converting>>

\* The answer to the read of the i-th handler in progress arrives: the rest
\* of button_handler runs on the sheet as it is read, the pressed message is
\* edited (it may have been edited by another handler since), and
\* process_update writes the state returned, whatever the state is by now.
button_handler_returns(i, ok) ==
    /\ i \in 1..Len(inflight)
    /\ LET task == inflight[i]
           u == task.user
           d == task.input
           k == task.keyboard
           edited == IF chat[u][k] > 0 THEN EditPlain(u, k) ELSE UNCHANGED chat
           done(calls, raised, report) ==
               last' = [user |-> u, handler |-> "button_handler",
                        state |-> task.state, input |-> d, calls |-> calls,
                        raised |-> raised, report |-> report]
       IN  /\ inflight' = SubSeq(inflight, 1, i - 1) \o SubSeq(inflight, i + 1, Len(inflight))
           /\ UNCHANGED converting
           /\ UNCHANGED <<sheet, quota, passed>>
           /\ IF d = T_input
              THEN /\ ok
                   /\ edited
                   /\ Goto(u, ASK_NAME)
                   /\ done(<<>>, FALSE, NoReport)
                   /\ UNCHANGED user_data
              ELSE IF d \in {T_edit, T_delete}
              THEN IF ~ok \/ ListRaises(sheet)
                   THEN /\ done(<<Call("get_all_values", <<>>)>>, TRUE, NoReport)
                        /\ UNCHANGED <<conv, user_data, chat>>
                   ELSE /\ done(<<Call("get_all_values", <<>>)>>, FALSE, NoReport)
                        /\ edited
                        /\ LET mapping == ListMapping(sheet)
                           IN  IF mapping # <<>>
                               THEN /\ SetData(u, IF d = T_edit THEN "record_list_edit"
                                                  ELSE "record_list_delete", mapping)
                                    /\ Goto(u, IF d = T_edit THEN SELECT_RECORD_EDIT
                                               ELSE SELECT_RECORD_DELETE)
                               ELSE /\ Goto(u, END)
                                    /\ UNCHANGED user_data
              ELSE IF d = T_rankings
              THEN /\ done(<<Call("get_all_values", <<>>)>>, FALSE, show_rankings(sheet, ok))
                   /\ edited
                   /\ Goto(u, END)
                   /\ UNCHANGED user_data
              ELSE /\ ok
                   /\ done(<<>>, FALSE, NoReport)
                   /\ Goto(u, END)
                   /\ UNCHANGED <<user_data, chat>>

\* The main menu with the button presses handled as the webhook hands them
\* over, on a sheet that is only read.
InitMenu ==
    /\ conv = [u \in Users |-> END]
    /\ user_data = [u \in Users |-> EmptyDict]
    /\ sheet \in InitSheets
    /\ quota = 0
    /\ chat = [u \in Users |-> [k \in Keyboards |-> 0]]
    /\ passed = [u \in Users |-> FALSE]
    /\ last = NoUpdate
    /\ inflight = <<>>
    /\ converting = NoConversion

NextMenu ==
    \/ \E u \in Users, k \in Keyboards, d \in MenuPressed : webhook_button_handler(u, k, d)
    \/ \E i \in 1..MaxInflight, ok \in BOOLEAN : button_handler_returns(i, ok)
    \/ \E u \in Users :
        \/ start_handler(u)
        \/ ask_password_handler(u, T_vibes)
        \/ \E t \in SelectTexts : select_record_edit_handler(u, t)
        \/ \E t \in SelectTexts : select_record_delete_handler(u, t)
        \/ \E t \in {T_yes, T_no}, ok \in BOOLEAN : confirm_delete_handler(u, t, ok)
        \/ cancel_handler(u)

SpecMenu == InitMenu /\ [][NextMenu]_vars


\* --------------------------------------------------------- two users
\* Two users of the bot, each in a private chat: the ConversationHandler keeps
\* one state and the application one user_data for each.
TwoUsers == {"u1", "u2"}

InitUsers ==
    /\ conv = [u \in TwoUsers |-> END]
    /\ user_data = [u \in TwoUsers |-> EmptyDict]
    /\ sheet = <<Header,
                 <<T_bar, D_200624, <<"4">>, <<"3">>, <<"2">>, <<"1">>, T_good>>,
                 <<T_pub, D_100624, <<"1">>, <<"2">>, <<"3">>, <<"4">>, T_bad>> >>
    /\ quota = MaxWrites
    /\ chat = [u \in TwoUsers |-> [k \in Keyboards |-> 0]]
    /\ passed = [u \in TwoUsers |-> FALSE]
    /\ last = NoUpdate
    /\ inflight = <<>>
    /\ converting = NoConversion

\* Both users start, pass the password step and cancel; the first walks the
\* create flow while the second walks the edit and delete flows.
NextUsers ==
    \/ \E u \in TwoUsers :
        \/ start_handler(u)
        \/ ask_password_handler(u, T_vibes)
        \/ cancel_handler(u)
    \/ \E u \in {"u1"} :
        \/ \E k \in Keyboards : button_handler(u, k, T_input, TRUE)
        \/ ask_name_handler(u, T_cafe)
        \/ ask_date_handler(u, D_150624)
        \/ \E k \in Keyboards : ask_food_handler(u, k, <<"2">>)
        \/ \E k \in Keyboards : ask_place_handler(u, k, <<"3">>)
        \/ \E k \in Keyboards : ask_spaciousness_handler(u, k, <<"4">>)
        \/ \E k \in Keyboards : ask_convo_handler(u, k, <<"1">>)
        \/ \E k \in Keyboards : ask_vibe_handler(u, k, T_good)
        \/ \E ok \in BOOLEAN : confirm_handler(u, T_yes, ok)
    \/ \E u \in {"u2"} :
        \/ \E k \in Keyboards, d \in {T_edit, T_delete} : button_handler(u, k, d, TRUE)
        \/ select_record_edit_handler(u, <<"1">>)
        \/ show_current_data_handler(u, T_Convo)
        \/ \E k \in Keyboards : ask_new_value_handler(u, k, <<"5">>)
        \/ \E ok \in BOOLEAN : confirm_edit_handler(u, T_yes, ok)
        \/ select_record_delete_handler(u, <<"1">>)
        \/ \E ok \in BOOLEAN : confirm_delete_handler(u, T_yes, ok)

SpecUsers == InitUsers /\ [][NextUsers]_vars


\* ---------------------------------------------------------  rankings
\* Rows a sheet may hold when the rankings are checked over sheets of every
\* shape: two good records (one labelled "Good"), a bad record, a row labelled
\* neither, a good row of an impossible date, a bad row whose food score is no
\* number, and a row of two cells.
RankPool ==
    { <<T_bar, D_200624, <<"1">>, <<"2">>, <<"3">>, <<"5">>, T_good>>,
      <<T_cafe, D_150624, <<"2">>, <<"3">>, <<"3">>, <<"5">>, <<"G","o","o","d">>>>,
      <<T_pub, D_100624, <<"1">>, <<"2">>, <<"4">>, <<"1">>, T_bad>>,
      <<T_pub, D_100624, <<"5">>, <<"5">>, <<"5">>, <<"5">>, <<"o","k">>>>,
      <<T_bar, D_310224, <<"5">>, <<"1">>, <<"1">>, <<"1">>, T_good>>,
      <<T_pub, D_100624, <<"x">>, <<"2">>, <<"4">>, <<"1">>, T_bad>>,
      <<T_cafe, D_150624>> }
\* Rows below the header in those sheets
MaxRankRows == 4
RankSheets == {Trim(<<Header>> \o rows) : rows \in SeqsUpTo(RankPool, MaxRankRows)}

InitRankings ==
    /\ conv = [u \in Users |-> END]
    /\ user_data = [u \in Users |-> EmptyDict]
    /\ sheet \in RankSheets
    /\ quota = 0
    /\ chat = [u \in Users |-> [k \in Keyboards |-> 0]]
    /\ passed = [u \in Users |-> FALSE]
    /\ last = NoUpdate
    /\ inflight = <<>>
    /\ converting = NoConversion

NextRankings ==
    \E u \in Users :
        \/ start_handler(u)
        \/ ask_password_handler(u, T_vibes)
        \/ \E k \in Keyboards, ok \in BOOLEAN : button_handler(u, k, T_rankings, ok)
        \/ cancel_handler(u)

SpecRankings == InitRankings /\ [][NextRankings]_vars


\* -------------------------------------------------------------- dates
\* Texts sent at the date step: every day / month / year of the sets below
\* joined by slashes, and texts of another shape
DateText(dd, mm, yyyy) == dd \o <<"/">> \o mm \o <<"/">> \o yyyy
DayTexts == {<<"0","0">>, <<"0","1">>, <<"2","8">>, <<"2","9">>, <<"3","0">>,
             <<"3","1">>, <<"3","2">>}
MonthTexts == {<<"0","0">>, <<"0","1">>, <<"0","2">>, <<"0","4">>, <<"1","2">>,
               <<"1","3">>}
YearTexts == {<<"0","0","0","0">>, <<"1","9","0","0">>, <<"2","0","0","0">>,
              <<"2","0","2","3">>, <<"2","0","2","4">>}
OddDateTexts ==
    { D_1_6_24, D_20_6_24,
      D_150624 \o <<"\n">>, D_150624 \o <<" ">>,
      <<" ","5","/","0","6","/","2","0","2","4">>,
      <<"1","5","-","0","6","-","2","0","2","4">>,
      <<"1","5","/","0","6","/","2","4">>,
      <<"1","5","/","0","6","/","2","0","2","4","0">>,
      <<"U+0661","U+FF15","/","0","6","/","2","0","2","4">>,
      <<"1","5","/","0","6","/","2","0","2","U+0661">>,
      <<"a","b","/","0","6","/","2","0","2","4">>,
      <<>> }
DateInputs ==
    {DateText(dd, mm, yyyy) : dd \in DayTexts, mm \in MonthTexts, yyyy \in YearTexts}
        \cup OddDateTexts

\* The create flow up to the date step, with those texts sent at it
NextDates ==
    \E u \in Users :
        \/ start_handler(u)
        \/ ask_password_handler(u, T_vibes)
        \/ \E k \in Keyboards, ok \in BOOLEAN : button_handler(u, k, T_input, ok)
        \/ ask_name_handler(u, T_cafe)
        \/ \E t \in DateInputs : ask_date_handler(u, t)
        \/ cancel_handler(u)

SpecDates == Init /\ [][NextDates]_vars


\* ------------------------------------------------------ col_to_letter
\* Column numbers handed to col_to_letter: none, A..Z, AA..ZZ, AAA and AAB
MaxCol == 704

\* Mutant of col_to_letter_loop: divmod(n, 26) in place of divmod(n - 1, 26)
col_to_letter_loop_zero_based ==
    /\ ~converting.returned
    /\ converting.n > 0
    /\ converting' = [converting EXCEPT
                         !.n = @ \div 26,
                         !.result = <<UpperLetters[(converting.n % 26) + 1]>> \o @]
    /\ UNCHANGED <<conv, user_data, sheet, quota, chat, passed, last, inflight>>

\* One turn of the loop: n, remainder = divmod(n - 1, 26), and
\* chr(65 + remainder) is put before the result
col_to_letter_loop ==
    /\ ~converting.returned
    /\ converting.n > 0
    /\ converting' = [converting EXCEPT
                         !.n = (@ - 1) \div 26,
                         !.result = <<UpperLetters[((converting.n - 1) % 26) + 1]>> \o @]
    /\ UNCHANGED <<conv, user_data, sheet, quota, chat, passed, last, inflight>>

\* The loop's condition fails: return result
col_to_letter_return ==
    /\ ~converting.returned
    /\ ~(converting.n > 0)
    /\ converting' = [converting EXCEPT !.returned = TRUE]
    /\ UNCHANGED <<conv, user_data, sheet, quota, chat, passed, last, inflight>>

\* col_to_letter called with each column number: result = ""
InitColumns ==
    /\ conv = [u \in Users |-> END]
    /\ user_data = [u \in Users |-> EmptyDict]
    /\ sheet = <<Header>>
    /\ quota = 0
    /\ chat = [u \in Users |-> [k \in Keyboards |-> 0]]
    /\ passed = [u \in Users |-> FALSE]
    /\ last = NoUpdate
    /\ inflight = <<>>
    /\ converting \in {[col |-> c, n |-> c, result |-> <<>>, returned |-> FALSE] :
                          c \in 0..MaxCol}

NextColumns ==
    \/ col_to_letter_loop
    \/ col_to_letter_return

\* The loop has no await: a call that has started runs on until it returns.
SpecColumns == InitColumns /\ [][NextColumns]_vars /\ WF_vars(NextColumns)


\* ------------------------------------------------------------ claims
IsWrite(c) == c.op \in {"append_row", "update_cell", "delete_row"}
Yes(t) == lower(t) = T_yes
By(u, h) == last'.user = u /\ last'.handler = h

\* C1: a reply of "yes" (any letter case) in CONFIRM makes exactly one append
\* call whose row is name, date, food, place, spaciousness, convo, vibe as
\* collected; any other reply makes no call; either way the session data is
\* cleared and the conversation ends.
C1_CreateRoundTrip ==
    [][\A u \in Users : By(u, "confirm_handler") =>
          LET data == user_data[u]["vibe_data"]
          IN  /\ IF Yes(last'.input)
                 THEN last'.calls =
                        <<Call("append_row",
                               << <<data["name"], data["date"], data["food"],
                                    data["place"], data["spaciousness"],
                                    data["convo"], data["vibe"]>> >>)>>
                 ELSE last'.calls = <<>> /\ sheet' = sheet
              /\ user_data'[u] = EmptyDict
              /\ conv'[u] = END]_vars

\* C2: /cancel in any state of an active conversation empties the user's
\* session data, ends the conversation and makes no call to the sheet.
C2_CancelClears ==
    [][\A u \in Users : By(u, "cancel_handler") =>
          /\ conv[u] \in ASK_PASSWORD..CONFIRM_DELETE
          /\ user_data'[u] = EmptyDict
          /\ conv'[u] = END
          /\ last'.calls = <<>>
          /\ sheet' = sheet /\ quota' = quota]_vars

\* C2 witness: /cancel was handled at the edit confirmation, where the listing,
\* the selection, the field and the new value had been collected.
C2_Witness ==
    /\ last.handler = "cancel_handler" /\ last.state = CONFIRM_EDIT
    /\ user_data[last.user] = EmptyDict /\ conv[last.user] = END

\* C3: when the append made on "yes" in CONFIRM fails, the session data is
\* empty afterwards and the conversation has ended (it is not still in CONFIRM).
C3_AppendFailureDiscards ==
    \A u \in Users :
        (last.user = u /\ last.handler = "confirm_handler" /\ last.raised) =>
            user_data[u] = EmptyDict /\ conv[u] = END

\* C4: every append, update and clear is made while handling "yes" in CONFIRM,
\* CONFIRM_EDIT and CONFIRM_DELETE respectively, and the sheet changes in no
\* other step.
C4_ConfirmationGate ==
    [][/\ sheet' # sheet => \E i \in 1..Len(last'.calls) : IsWrite(last'.calls[i])
       /\ \A i \in 1..Len(last'.calls) :
            LET c == last'.calls[i]
                st == conv[last'.user]
            IN  IsWrite(c) =>
                  /\ Yes(last'.input)
                  /\ last'.handler \in {"confirm_handler", "confirm_edit_handler",
                                        "confirm_delete_handler"}
                  /\ c.op = "append_row" => st = CONFIRM
                  /\ c.op = "update_cell" => st = CONFIRM_EDIT
                  /\ c.op = "delete_row" => st = CONFIRM_DELETE]_vars

\* C4 witness: an append was accepted on "YES" in CONFIRM.
C4_Witness ==
    /\ last.handler = "confirm_handler" /\ last.input = T_YES /\ ~last.raised
    /\ Len(last.calls) = 1 /\ last.calls[1].op = "append_row"
    /\ quota < MaxWrites

\* C5: the column the claim gives each editable field
C5_Column(field) ==
    CASE field = T_food -> 3 [] field = T_place -> 4 [] field = T_spaciousness -> 5
      [] field = T_convo -> 6 [] field = T_vibe -> 7

\* C5: in CONFIRM_EDIT a record, one of the five fields (lower-cased) and a
\* value have been chosen; "yes" makes exactly one update_cell call, to the row
\* index of the selected reference and the field's column 3..7, carrying the
\* chosen value, and no other call; an accepted update puts the value in that
\* cell; any other reply makes no call.
C5_EditUpdatesOneCell ==
    [][\A u \in Users : By(u, "confirm_edit_handler") =>
          LET d == user_data[u]
              row == d["selected_record_edit"].index
              col == C5_Column(d["field_to_edit"])
          IN  /\ {"selected_record_edit", "field_to_edit", "new_value"} \subseteq DOMAIN d
              /\ d["field_to_edit"] \in {T_food, T_place, T_spaciousness, T_convo, T_vibe}
              /\ IF Yes(last'.input)
                 THEN /\ last'.calls = <<Call("update_cell", <<row, col, d["new_value"]>>)>>
                      /\ ~last'.raised => sheet'[row][col] = d["new_value"]
                 ELSE last'.calls = <<>> /\ sheet' = sheet]_vars

\* C5 witness: "Convo" was chosen for the record listed second (sheet row 3),
\* and the update of column 6 was accepted.
C5_Witness ==
    /\ last.handler = "confirm_edit_handler" /\ ~last.raised
    /\ last.calls = <<Call("update_cell", <<3, 6, <<"5">>>>)>>
    /\ sheet[3][6] = <<"5">>

\* C6: "yes" in CONFIRM_DELETE makes exactly one delete_row call, for the
\* selected row index, and no other call; any other reply makes no call;
\* either way the session data is cleared and the conversation ends.
C6_DeleteClearsOneRow ==
    [][\A u \in Users : By(u, "confirm_delete_handler") =>
          /\ IF Yes(last'.input)
             THEN last'.calls =
                    <<Call("delete_row", <<user_data[u]["selected_record_delete"].index>>)>>
             ELSE last'.calls = <<>> /\ sheet' = sheet
          /\ user_data'[u] = EmptyDict
          /\ conv'[u] = END]_vars


\* C7: the key under which a menu press keeps the listing
C7_ListKey(d) == IF d = T_edit THEN "record_list_edit" ELSE "record_list_delete"

\* C7: the rows below the header whose date field parses as a date
C7_Dated == {i \in 2..Len(sheet) : Len(sheet[i]) >= 2 /\ is_valid_date(sheet[i][2])}

C8_Collected == {"vibe_data", "record_list_edit", "record_list_delete",
                 "selected_record_edit", "selected_record_delete"}

\* C8: an invalid date in ASK_DATE, a list position that is no number or no
\* key of the listing in the two selection states, an unrecognized field name
\* in SHOW_CURRENT_DATA, or callback data that is no number in the four score
\* states leaves the conversation state as it was, makes no call to the sheet,
\* and leaves the pending record, the listings and the selections as they were.
C8_InputErrorPolicy ==
    [][\A u \in Users :
          LET t == last'.input
              invalid ==
                \/ /\ By(u, "ask_date_handler")
                   /\ ~(DatePattern(t) /\ is_valid_date(t))
                \/ /\ By(u, "select_record_edit_handler")
                   /\ ~(IntOk(strip(t)) /\ int(strip(t)) \in DOMAIN user_data[u]["record_list_edit"])
                \/ /\ By(u, "select_record_delete_handler")
                   /\ ~(IntOk(strip(t)) /\ int(strip(t)) \in DOMAIN user_data[u]["record_list_delete"])
                \/ /\ By(u, "show_current_data_handler")
                   /\ lower(t) \notin {T_food, T_place, T_spaciousness, T_convo, T_vibe}
                \/ /\ \/ By(u, "ask_food_handler") \/ By(u, "ask_place_handler")
                      \/ By(u, "ask_spaciousness_handler") \/ By(u, "ask_convo_handler")
                   /\ ~IntOk(t)
          IN  invalid =>
                /\ conv'[u] = conv[u]
                /\ last'.calls = <<>> /\ sheet' = sheet
                /\ \A k \in C8_Collected :
                     /\ k \in DOMAIN user_data'[u] <=> k \in DOMAIN user_data[u]
                     /\ k \in DOMAIN user_data[u] => user_data'[u][k] = user_data[u][k]]_vars

\* C8 witness: the impossible date 31/02/2024 was sent in ASK_DATE and the
\* pending record still holds the name alone.
C8_Witness ==
    /\ last.handler = "ask_date_handler" /\ last.input = D_310224
    /\ conv[last.user] = ASK_DATE
    /\ user_data[last.user] = [vibe_data |-> [name |-> T_cafe]]

\* C9: until a user has sent the password in ASK_PASSWORD, the user's chat
\* shows no main menu and the user is in no state of a sub-flow.
C9_PasswordGate ==
    \A u \in Users :
        ~passed[u] => chat[u][MAIN_MENU] = 0 /\ conv[u] \in {END, ASK_PASSWORD}

\* C10: in ASK_PASSWORD the text "vibes" shows the main menu and ends the
\* conversation; any other text leaves the state ASK_PASSWORD and everything
\* else as it was, so that the next attempt is handled alike; neither makes a
\* call to the sheet.
C10_PasswordStep ==
    [][\A u \in Users : By(u, "ask_password_handler") =>
          /\ conv[u] = ASK_PASSWORD
          /\ last'.calls = <<>> /\ sheet' = sheet
          /\ IF last'.input = T_vibes
             THEN /\ conv'[u] = END
                  /\ chat'[u][MAIN_MENU] = chat[u][MAIN_MENU] + 1
             ELSE /\ conv'[u] = ASK_PASSWORD
                  /\ UNCHANGED <<user_data, chat, passed, quota>>]_vars

\* C10 witness: "Vibes" was refused and the password is still being asked for.
C10_Witness ==
    /\ last.handler = "ask_password_handler" /\ last.input = T_Vibes
    /\ conv[last.user] = ASK_PASSWORD /\ ~passed[last.user]

\* C11: when update_cell fails on "yes" in CONFIRM_EDIT, delete_row fails on
\* "yes" in CONFIRM_DELETE, or the read of the listing fails on a press of
\* "edit" or "delete", the user's conversation has ended afterwards and the
\* session data (listing, selection, field, new value) is empty.
C11_StoreErrorPolicy ==
    \A u \in Users :
        (/\ last.user = u /\ last.raised
         /\ \/ last.handler \in {"confirm_edit_handler", "confirm_delete_handler"}
            \/ last.handler = "button_handler" /\ last.input \in {T_edit, T_delete}) =>
            user_data[u] = EmptyDict /\ conv[u] = END

\* C12: the handling of one update of a user is complete before the handling
\* of the user's next update begins: no two handlers of one user are in
\* progress at once, so no two updates are handled against the same state of
\* the conversation and one confirmation makes one append.
C12_ArrivalOrder ==
    \A i, j \in 1..Len(inflight) :
        i # j => inflight[i].user # inflight[j].user

\* C13: handling an update of one user leaves the conversation state and the
\* session data of every other user as they were.
C13_SessionsIndependent ==
    [][\A a, b \in TwoUsers :
          (a # b /\ last'.user = a) =>
              conv'[b] = conv[b] /\ user_data'[b] = user_data[b]]_vars

\* C13 witness: a user's /cancel in CONFIRM emptied that user's data while
\* the other user is at the delete confirmation with listing and selection kept.
C13_Witness ==
    /\ last.handler = "cancel_handler" /\ last.user = "u1" /\ last.state = CONFIRM
    /\ user_data["u1"] = EmptyDict /\ conv["u1"] = END
    /\ conv["u2"] = CONFIRM_DELETE
    /\ "selected_record_delete" \in DOMAIN user_data["u2"]

\* C14: the rows below the header whose vibe label, lower-cased, is the given one
C14_Partition(label) ==
    {i \in 2..Len(sheet) : Len(sheet[i]) >= 7 /\ lower(sheet[i][7]) = label}

\* C14: a press of "rankings" makes no write, leaves the sheet as it is and
\* ends the conversation.  When the sheet was read, the good and the bad
\* partition are the rows below the header whose label is good / bad whatever
\* the letter case; with either empty the message says "Not enough data" and
\* holds no ranking and no average; otherwise it does not say so, and the
\* averages of a ranking are taken over exactly those rows.
C14_RankingsPrecondition ==
    [][\A u \in Users : (By(u, "button_handler") /\ last'.input = T_rankings) =>
          LET r == last'.report
              G == C14_Partition(T_good)
              B == C14_Partition(T_bad)
          IN  /\ conv'[u] = END
              /\ sheet' = sheet /\ quota' = quota
              /\ \A i \in 1..Len(last'.calls) : ~IsWrite(last'.calls[i])
              /\ r.text # "Error retrieving data." =>
                   IF G = {} \/ B = {}
                   THEN r = [NoReport EXCEPT !.text = "Not enough data for rankings."]
                   ELSE /\ r.text # "Not enough data for rankings."
                        /\ r.ranking # <<>> =>
                             \A a \in 1..4 :
                                /\ r.good_avg[a] = <<SumScores(sheet, G, a + 2), Cardinality(G)>>
                                /\ r.bad_avg[a] = <<SumScores(sheet, B, a + 2), Cardinality(B)>>]_vars

\* C14 witness: "rankings" was pressed on a sheet with a row labelled "Good",
\* a row labelled "ok" and no bad row: not enough data, conversation ended.
C14_Witness ==
    /\ last.handler = "button_handler" /\ last.input = T_rankings
    /\ last.report.text = "Not enough data for rankings."
    /\ conv[last.user] = END
    /\ \E i \in 2..Len(sheet) : Len(sheet[i]) >= 7 /\ sheet[i][7] = <<"G","o","o","d">>
    /\ \E i \in 2..Len(sheet) : Len(sheet[i]) >= 7 /\ sheet[i][7] = <<"o","k">>
    /\ C14_Partition(T_bad) = {}

\* C15: the difference mean(good) - mean(bad) of attribute a as the exact
\* fraction over the common denominator |good| * |bad|: its numerator
C15_Difference(report, a) ==
    report.good_avg[a][1] * report.bad_avg[a][2]
        - report.bad_avg[a][1] * report.good_avg[a][2]

\* C15: the ranking shown lists the four attributes once each; of two
\* attributes the one of greater difference mean(good) - mean(bad) comes
\* first, and of two of equal difference the one earlier in food, place,
\* spaciousness, convo.
C15_RankingOrder ==
    (last.handler = "button_handler" /\ last.input = T_rankings
        /\ last.report.ranking # <<>>) =>
        LET r == last.report
            pos(a) == CHOOSE k \in 1..4 : r.ranking[k] = attrs[a]
        IN  /\ \A a \in 1..4 : \E k \in 1..4 : r.ranking[k] = attrs[a]
            /\ \A a, b \in 1..4 :
                 pos(a) < pos(b) =>
                    \/ C15_Difference(r, a) > C15_Difference(r, b)
                    \/ C15_Difference(r, a) = C15_Difference(r, b) /\ a < b

\* C16: a well-formed row has seven cells, a date that parses, the label good
\* or bad (in any letter case) and four integer scores
C16_WellFormed(row) ==
    /\ Len(row) = 7
    /\ is_valid_date(row[2])
    /\ lower(row[7]) \in {T_good, T_bad}
    /\ \A c \in 3..6 : IntOk(row[c])

\* C16: the sheet with every malformed row below the header blanked
C16_WellFormedOnly ==
    [i \in 1..Len(sheet) |->
        IF i = 1 \/ C16_WellFormed(sheet[i]) THEN sheet[i] ELSE <<>>]

\* C16: when the sheet was read, what a press of "rankings" reports is what it
\* reports for the sheet's well-formed rows alone: a malformed row is in
\* neither partition and does not keep the ranking from being computed.
C16_MalformedRowsSkipped ==
    (last.handler = "button_handler" /\ last.input = T_rankings
        /\ last.report.text # "Error retrieving data.") =>
        last.report = show_rankings(C16_WellFormedOnly, TRUE)

\* C17: the shape two digits, slash, two digits, slash, four digits
C17_Shape(t) ==
    /\ Len(t) = 10
    /\ t[3] = "/" /\ t[6] = "/"
    /\ \A i \in {1, 2, 4, 5, 7, 8, 9, 10} :
         t[i] \in {"0", "1", "2", "3", "4", "5", "6", "7", "8", "9"}

C17_Number(ds) == DigitsValue(ds)

\* C17: a text of that shape denotes a date of the Gregorian calendar: a year
\* 1..9999 (the calendar has no year 0), a month 1..12 and a day from 1 to the
\* length of the month, 29 for February in a leap year
C17_RealDate(t) ==
    LET d == C17_Number(SubSeq(t, 1, 2))
        m == C17_Number(SubSeq(t, 4, 5))
        y == C17_Number(SubSeq(t, 7, 10))
        leap == (y % 4 = 0 /\ y % 100 # 0) \/ y % 400 = 0
        length == CASE m \in {1, 3, 5, 7, 8, 10, 12} -> 31
                    [] m \in {4, 6, 9, 11} -> 30
                    [] m = 2 -> (IF leap THEN 29 ELSE 28)
                    [] OTHER -> 0
    IN  y >= 1 /\ m \in 1..12 /\ d >= 1 /\ d <= length

C18_ValuesInDomain ==
    [][\A i \in 1..Len(last'.calls) :
          LET c == last'.calls[i]
          IN  /\ c.op = "append_row" =>
                    /\ \A k \in 3..6 : c.args[1][k] \in 1..5
                    /\ c.args[1][7] \in {T_good, T_bad}
              /\ c.op = "update_cell" =>
                    IF c.args[2] \in 3..6
                    THEN c.args[3] \in {IntStr(n) : n \in 1..5}
                    ELSE c.args[3] \in {T_good, T_bad}]_vars

\* C19: the references (row index and row) the listing gives for a sheet
C19_Listed(data) == {ListMapping(data)[k] : k \in DOMAIN ListMapping(data)}

\* C19: after an accepted delete of sheet row r, the listing of the sheet holds
\* no reference to row r and holds every other reference it held before, with
\* the same row index and the same row, and nothing else.
C19_DeleteKeepsIndices ==
    [][\A u \in Users :
          (By(u, "confirm_delete_handler") /\ last'.calls # <<>> /\ ~last'.raised) =>
              LET r == last'.calls[1].args[1]
              IN  /\ \A ref \in C19_Listed(sheet') : ref.index # r
                  /\ C19_Listed(sheet') = {ref \in C19_Listed(sheet) : ref.index # r}]_vars

\* C19 witness: the record of sheet row 2 was deleted, and a later
\* listing for edit holds the other record alone, still at sheet row 3.
C19_Witness ==
    /\ last.handler = "button_handler" /\ last.input = T_edit /\ ~last.raised
    /\ Len(sheet) = 3 /\ sheet[2] = <<>>
    /\ conv[last.user] = SELECT_RECORD_EDIT
    /\ Len(user_data[last.user]["record_list_edit"]) = 1
    /\ user_data[last.user]["record_list_edit"][1].index = 3
    /\ user_data[last.user]["record_list_edit"][1].data = sheet[3]

\* C20: the fields the steps before create state st have stored
C20_Passed(st) == {RecordKeys[i] : i \in 1..(st - ASK_NAME)}

C21_IdleImpliesEmpty ==
    \A u \in Users : conv[u] = END => user_data[u] = EmptyDict

\* C22: the names the claim gives as examples
C22_Examples ==
    [col \in {1, 26, 27, 52, 53, 702, 703} |->
        CASE col = 1 -> <<"A">>
          [] col = 26 -> <<"Z">>
          [] col = 27 -> <<"A", "A">>
          [] col = 52 -> <<"A", "Z">>
          [] col = 53 -> <<"B", "A">>
          [] col = 702 -> <<"Z", "Z">>
          [] col = 703 -> <<"A", "A", "A">>]

\* C22: the sum of (letter value 1..26) * 26^position over the letters of a
\* name, the last letter at position 0
RECURSIVE C22_Decode(_)
C22_Decode(name) ==
    IF name = <<>> THEN 0
    ELSE LET c == name[Len(name)]
             value == CHOOSE v \in 1..26 : UpperLetters[v] = c
         IN  value + 26 * C22_Decode(SubSeq(name, 1, Len(name) - 1))

\* C22: what col_to_letter returns for column n is made of the letters A..Z
\* and decodes to n as a bijective base-26 numeral, is the name the claim
\* gives where it gives one, is the name no other column number gets, and is
\* the name update_cell addresses the column by; and every call returns.
C22_ColumnLetters ==
    /\ [](converting.returned =>
            LET name == converting.result
                col == converting.col
            IN  /\ \A i \in 1..Len(name) : \E v \in 1..26 : name[i] = UpperLetters[v]
                /\ C22_Decode(name) = col
                /\ col \in DOMAIN C22_Examples => name = C22_Examples[col]
                /\ \A other \in 0..MaxCol : other # col => col_to_letter(other) # name
                /\ name = col_to_letter(col))
    /\ <>converting.returned

\* C22 witness: the call for column 703 has returned AAA after three turns
C22_Witness ==
    /\ converting.returned
    /\ converting.col = 703
    /\ converting.n = 0
    /\ converting.result = <<"A", "A", "A">>

====
